---- MODULE Spec2Model ----
(***************************************************************************)
(* Model of the mio memory-mapping engine detail::basic_mmap<ByteT>        *)
(* (include/mio/detail/basic_mmap.hpp and its implementation file) and of  *)
(* the operating-system services it calls: open, fstat, mmap, munmap,      *)
(* msync, close and their Windows counterparts.                            *)
(*                                                                         *)
(* File handles and OS mappings get identities that are never reused, so   *)
(* that a second close or a second destroy of the same resource is         *)
(* visible as a count of 2.  Mapping k is placed at address k * Stride.    *)
(***************************************************************************)
EXTENDS Integers, Sequences, FiniteSets, TLC

\* ---- bounds of the model ----
PageSize == 3
FileSize == 5
MaxMaps == 2
MaxOpens == 2
\* size_type is a signed integer of SizeBits bits.
SizeBits == 5

\* ---- program constants ----
INVALID_HANDLE_VALUE == -1
map_entire_file == 0
nullptr == 0

\* NULL, the value CreateFileMapping returns on failure.
NULL_HANDLE == 0
\* What a read of an address outside every live view yields.
Fault == -1

Instances == {"a", "b"}

\* The offsets and lengths map is called with: every one up to one past
\* the end of the file, and a negative length.
Offsets == 0..(FileSize + 1)
Lengths == (-1)..(FileSize + 1)
Requests == [off : Offsets, len : Lengths]
\* The two the two-instance specification draws from at every call: a
\* range at an offset that is no multiple of the page size, and a range
\* that ends past the end of the file.
FewRequests ==
    {[off |-> 1, len |-> 1], [off |-> 1, len |-> FileSize + 1]}

\* The ranges the sink and the source map: two bytes inside the first
\* page, one byte past a page boundary.
SinkRequests ==
    {[off |-> 1, len |-> 2], [off |-> PageSize + 1, len |-> 1]}

\* The ranges a view is mapped with before it is moved: from a page
\* boundary, from inside the first and inside the second page, one byte
\* or the whole file.
MoveRequests == [off : {0, 1, PageSize + 1}, len : {map_entire_file, 1}]

\* The largest value of size_type.
size_max == 2^(SizeBits - 1) - 1

\* n is a value of size_type.
Representable(n) == n \in (-size_max - 1)..size_max

\* Requests whose offset + length lies beyond the file; for those at
\* offset size_max the sum is no value of size_type.
WideRequests == [off : {0, size_max}, len : {FileSize + 1, size_max}]

\* The ranges of two views that are compared: one a proper prefix of the
\* other, one starting at another byte.
CompareRequests ==
    {[off |-> 0, len |-> 1], [off |-> 0, len |-> 2], [off |-> 1, len |-> 1]}

\* enum class access_mode.
access_mode == {"read", "write"}

\* The byte the example stores through the sink.
Answer == 42

\* The call of map at which the operating system refuses, if any.
FailPoints == {"none", "open", "size", "cfm", "view"}

\* A path is a C string that may be the null pointer, or a std::string.
NullPath == [null |-> TRUE, chars |-> ""]
EmptyPath == [null |-> FALSE, chars |-> ""]
MissingPath == [null |-> FALSE, chars |-> "garbage"]
FilePath == [null |-> FALSE, chars |-> "test-file"]
Paths == {NullPath, EmptyPath, MissingPath, FilePath}

\* Mapping k occupies the addresses k * Stride .. k * Stride + len - 1.
Stride == PageSize * (FileSize + 2)

VARIABLES
    obj,        \* obj[i]: the fields of engine instance i
    alive,      \* alive[i]: instance i is constructed and not yet destroyed
    handles,    \* the file handles ever opened, handle h = index h
    maps,       \* the OS mappings ever created, mapping k = index k
    error,      \* the std::error_code output of the last operation
    calls,      \* the OS calls issued by the last operation, in order
    last,       \* the last operation, its instances and its file
    moved_from, \* the instances whose state a move has taken away
    req,        \* the offset and length SpecArgs maps with at every call
    win,        \* TRUE when built for _WIN32, FALSE for POSIX
    file,       \* file[p]: byte p of the test file as it is now
    written     \* written[k]: the byte last stored at index k of a sink's
                \* view, 0 if none was

vars == <<obj, alive, handles, maps, error, calls, last, moved_from, req, win,
          file, written>>

\* ---- the file on disk ----

\* Byte k of the test file: printable characters starting at 33.
FileByte(k) == 33 + (k % 93)

\* ---- pure helpers of the engine ----

\* detail::empty for C strings without the test for a null pointer.
empty_path_unchecked(path) == ~path.null /\ Len(path.chars) = 0

\* detail::empty for C strings and for std::string.
empty_path(path) == path.null \/ Len(path.chars) = 0

\* An alignment that maps every offset to the start of the file.
make_offset_page_aligned_to_zero(offset) == 0

\* An alignment that rounds up to the next page boundary.
make_offset_page_aligned_up(offset) ==
    ((offset + PageSize - 1) \div PageSize) * PageSize

\* An alignment that leaves the offset as it is.
make_offset_page_aligned_identity(offset) == offset

make_offset_page_aligned(offset) == (offset \div PageSize) * PageSize

\* The state of a default-constructed basic_mmap; is_handle_internal_ has
\* no initializer, its value is whatever b is.
Unestablished(b) ==
    [data |-> nullptr, file_handle |-> INVALID_HANDLE_VALUE,
     file_mapping_handle |-> INVALID_HANDLE_VALUE,
     length |-> 0, mapped_length |-> 0, is_handle_internal |-> b]

is_open(m) == m.file_handle # INVALID_HANDLE_VALUE

is_mapped(m) ==
    IF win THEN m.file_mapping_handle # INVALID_HANDLE_VALUE ELSE is_open(m)

empty(m) == m.length = 0

offset(m) == m.mapped_length - m.length

\* A mapping start that is the start of the visible range.
get_mapping_start_data(m) == m.data

get_mapping_start(m) == IF m.data = nullptr THEN nullptr ELSE m.data - offset(m)

mapping_handle(m) == IF win THEN m.file_mapping_handle ELSE m.file_handle

\* ---- the operating system ----
\* A world w is the record [obj, handles, maps, error, calls, ub]; every
\* OS call appends itself to w.calls.  w.ub is the truth value that a
\* comparison takes in this run when the signed sum on its left overflows
\* (undefined behaviour); Run draws it.

World == [obj |-> obj, handles |-> handles, maps |-> maps,
          error |-> error, calls |-> <<>>, ub |-> FALSE]

\* The worlds a call of map with offset off and length len may run in.
Run(off, len) ==
    {[World EXCEPT !.ub = u] :
        u \in IF Representable(off + len) THEN {FALSE} ELSE BOOLEAN}

Call(fn, a, b) == [fn |-> fn, a |-> a, b |-> b]

Log(w, c) == [w EXCEPT !.calls = Append(@, c)]

\* The mapping whose address range starts at or contains addr, 0 if none.
MapAt(ms, addr) ==
    LET k == addr \div Stride
    IN IF k \in 1..Len(ms) THEN k ELSE 0

\* ::open / ::CreateFile of an existing file: a new handle, owned by by,
\* opened O_RDONLY for mode read and O_RDWR for mode write.
os_open(w, by, mode) ==
    [Log(w, Call("open", 0, 0)) EXCEPT
        !.handles = Append(@, [by |-> by, open |-> TRUE, closes |-> 0,
                               mode |-> mode])]

\* The OS refuses a writable shared mapping of a handle opened read-only.
Permitted(w, h, mode) ==
    mode = "read" \/ (h \in 1..Len(w.handles) /\ w.handles[h].mode = "write")

\* ::open / ::CreateFile that fails.
os_open_fail(w) == Log(w, Call("open", 0, 0))

\* ::close / ::CloseHandle of file handle h, issued by the engine.
os_close(w, h) ==
    LET w1 == Log(w, Call("close", h, 0))
    IN IF h \in 1..Len(w.handles)
       THEN [w1 EXCEPT !.handles[h].open = FALSE,
                       !.handles[h].closes = @ + 1]
       ELSE w1

\* ::fstat / ::GetFileSizeEx.
os_fstat(w, h) == Log(w, Call("fstat", h, 0))

\* ::mmap that succeeds: a new view of the file from aligned_offset on.
os_mmap(w, h, aligned_offset, length_to_map, mode) ==
    [Log(w, Call("mmap", aligned_offset, length_to_map)) EXCEPT
        !.maps = Append(@, [foff |-> aligned_offset, len |-> length_to_map,
                            fd |-> h, view |-> TRUE, object |-> FALSE,
                            destroys |-> 0, objcloses |-> 0, exact |-> TRUE,
                            prot |-> mode])]

os_mmap_fail(w, aligned_offset, length_to_map) ==
    Log(w, Call("mmap", aligned_offset, length_to_map))

\* ::munmap(addr, len) / ::UnmapViewOfFile(addr).
os_munmap(w, addr, len) ==
    LET w1 == Log(w, Call("munmap", addr, len))
        k == MapAt(w.maps, addr)
    IN IF k = 0 THEN w1
       ELSE [w1 EXCEPT !.maps[k].view = FALSE, !.maps[k].fd = INVALID_HANDLE_VALUE,
                       !.maps[k].foff = 0, !.maps[k].len = 0,
                       !.maps[k].prot = "read",
                       !.maps[k].destroys = @ + 1,
                       !.maps[k].exact = @ /\ addr = k * Stride
                                           /\ (win \/ len = w.maps[k].len)]

\* ::CreateFileMapping that succeeds: a mapping object without a view yet.
os_CreateFileMapping(w, h, max_file_size, mode) ==
    [Log(w, Call("CreateFileMapping", h, max_file_size)) EXCEPT
        !.maps = Append(@, [foff |-> 0, len |-> 0,
                            fd |-> h, view |-> FALSE, object |-> TRUE,
                            destroys |-> 0, objcloses |-> 0, exact |-> TRUE,
                            prot |-> mode])]

os_CreateFileMapping_fail(w, h, max_file_size) ==
    Log(w, Call("CreateFileMapping", h, max_file_size))

\* ::MapViewOfFile on mapping object k that succeeds.
os_MapViewOfFile(w, k, aligned_offset, length_to_map, mode) ==
    [Log(w, Call("MapViewOfFile", aligned_offset, length_to_map)) EXCEPT
        !.maps[k].foff = aligned_offset, !.maps[k].len = length_to_map,
        !.maps[k].view = TRUE, !.maps[k].prot = mode]

os_MapViewOfFile_fail(w, aligned_offset, length_to_map) ==
    Log(w, Call("MapViewOfFile", aligned_offset, length_to_map))

\* ::CloseHandle on mapping object k.
os_CloseMapping(w, k) ==
    LET w1 == Log(w, Call("CloseMapping", k, 0))
    IN IF k \in 1..Len(w.maps)
       THEN [w1 EXCEPT !.maps[k].object = FALSE, !.maps[k].objcloses = @ + 1]
       ELSE w1

\* ::msync / ::FlushViewOfFile.
os_msync(w, addr, len) == Log(w, Call("msync", addr, len))

\* ::FlushFileBuffers.
os_FlushFileBuffers(w, h) == Log(w, Call("FlushFileBuffers", h, 0))

\* The byte at address addr as the process reads it.
ReadMem(ms, addr) ==
    LET k == MapAt(ms, addr)
    IN IF k # 0 /\ ms[k].view /\ addr - k * Stride < ms[k].len
       THEN LET p == ms[k].foff + (addr - k * Stride)
            IN IF p < FileSize THEN file[p] ELSE 0
       ELSE Fault

\* A store of byte v at address addr: through a writable view it reaches
\* the file (MAP_SHARED), anywhere else it faults.
WriteMem(ms, f, addr, v) ==
    LET k == MapAt(ms, addr)
        ok == k # 0 /\ ms[k].view /\ addr - k * Stride < ms[k].len
                    /\ ms[k].prot = "write"
        p == ms[k].foff + (addr - k * Stride)
    IN [ok |-> ok,
        file |-> IF ok /\ p < FileSize THEN [f EXCEPT ![p] = v] ELSE f]

\* operator[]: byte i of the view of m.
ViewByte(ms, m, i) == ReadMem(ms, m.data + i)

\* ---- the mapping lifecycle engine ----

\* mmap_context whose data is the page-aligned start of the mapping.
mmap_context_unshifted(mapping_start, off, len, fmh) ==
    [data |-> mapping_start,
     length |-> len,
     mapped_length |-> off - make_offset_page_aligned(off) + len,
     file_mapping_handle |-> fmh]

\* What a successful mapping creation returns.
mmap_context(mapping_start, off, len, fmh) ==
    LET aligned_offset == make_offset_page_aligned(off)
        length_to_map == off - aligned_offset + len
    IN [data |-> mapping_start + off - aligned_offset,
        length |-> len,
        mapped_length |-> length_to_map,
        file_mapping_handle |-> fmh]

\* memory_map on POSIX: one call to ::mmap.  viewOk is the OS's verdict;
\* a request for no bytes is refused by the OS with EINVAL, a writable
\* mapping of a handle opened read-only with EACCES.
memory_map_posix(w, file_handle, off, len, mode, viewOk) ==
    LET aligned_offset == make_offset_page_aligned(off)
        length_to_map == off - aligned_offset + len
        k == Len(w.maps) + 1
    IN IF viewOk /\ length_to_map > 0 /\ Permitted(w, file_handle, mode)
       THEN [w |-> os_mmap(w, file_handle, aligned_offset, length_to_map,
                           mode),
             error |-> "none",
             ctx |-> mmap_context(k * Stride, off, len, INVALID_HANDLE_VALUE)]
       ELSE [w |-> os_mmap_fail(w, aligned_offset, length_to_map),
             error |-> "os_error",
             ctx |-> mmap_context(nullptr, 0, 0, INVALID_HANDLE_VALUE)]

\* memory_map on Windows: ::CreateFileMapping, then ::MapViewOfFile.
\* CreateFileMapping reports failure by returning NULL.
memory_map_win32(w, file_handle, off, len, mode, cfmOk, viewOk) ==
    LET aligned_offset == make_offset_page_aligned(off)
        length_to_map == off - aligned_offset + len
        max_file_size == off + len
        k == Len(w.maps) + 1
        created == cfmOk /\ Permitted(w, file_handle, mode)
        w1 == IF created
              THEN os_CreateFileMapping(w, file_handle, max_file_size, mode)
              ELSE os_CreateFileMapping_fail(w, file_handle, max_file_size)
        file_mapping_handle == IF created THEN k ELSE NULL_HANDLE
    IN IF file_mapping_handle = INVALID_HANDLE_VALUE
       THEN [w |-> w1, error |-> "os_error",
             ctx |-> mmap_context(nullptr, 0, 0, INVALID_HANDLE_VALUE)]
       ELSE IF created /\ viewOk
       THEN [w |-> os_MapViewOfFile(w1, k, aligned_offset, length_to_map,
                                    mode),
             error |-> "none",
             ctx |-> mmap_context(k * Stride, off, len, file_mapping_handle)]
       ELSE [w |-> os_MapViewOfFile_fail(w1, aligned_offset, length_to_map),
             error |-> "os_error",
             ctx |-> mmap_context(nullptr, 0, 0, INVALID_HANDLE_VALUE)]

memory_map(w, file_handle, off, len, mode, cfmOk, viewOk) ==
    IF win THEN memory_map_win32(w, file_handle, off, len, mode, cfmOk, viewOk)
    ELSE memory_map_posix(w, file_handle, off, len, mode, viewOk)

\* reset_fields that leaves file_handle_ as it is.
reset_fields_keeping_handle(m) ==
    [m EXCEPT !.data = nullptr, !.length = 0, !.mapped_length = 0,
              !.file_mapping_handle = INVALID_HANDLE_VALUE]

\* A reset that forgets the data pointer.
reset_fields_keeping_data(m) ==
    [m EXCEPT !.length = 0, !.mapped_length = 0,
              !.file_handle = INVALID_HANDLE_VALUE,
              !.file_mapping_handle = INVALID_HANDLE_VALUE]

\* The fields unmap writes at its end; is_handle_internal_ is not among them.
reset_fields(m) ==
    [m EXCEPT !.data = nullptr, !.length = 0, !.mapped_length = 0,
              !.file_handle = INVALID_HANDLE_VALUE,
              !.file_mapping_handle = INVALID_HANDLE_VALUE]

\* unmap without the early return for an instance that is not open.
unmap_unguarded(w, i) ==
    LET m == w.obj[i]
        w1 == IF win
              THEN IF is_mapped(m)
                   THEN os_CloseMapping(
                            os_munmap(w, get_mapping_start(m), m.mapped_length),
                            m.file_mapping_handle)
                   ELSE w
              ELSE IF m.data # nullptr
                   THEN os_munmap(w, get_mapping_start(m), m.mapped_length)
                   ELSE w
        w2 == IF m.is_handle_internal THEN os_close(w1, m.file_handle) ELSE w1
    IN [w2 EXCEPT !.obj[i] = reset_fields(m)]

\* unmap that releases the OS resources and leaves the fields as they were.
unmap_keeping_fields(w, i) ==
    LET m == w.obj[i]
        w1 == IF win
              THEN IF is_mapped(m)
                   THEN os_CloseMapping(
                            os_munmap(w, get_mapping_start(m), m.mapped_length),
                            m.file_mapping_handle)
                   ELSE w
              ELSE IF m.data # nullptr
                   THEN os_munmap(w, get_mapping_start(m), m.mapped_length)
                   ELSE w
    IN IF ~is_open(m) THEN w
       ELSE IF m.is_handle_internal THEN os_close(w1, m.file_handle) ELSE w1

\* unmap that flushes the view before destroying it.
unmap_flushing(w, i) ==
    LET m == w.obj[i]
        wf == os_msync(w, get_mapping_start(m), m.mapped_length)
        w1 == IF win
              THEN IF is_mapped(m)
                   THEN os_CloseMapping(
                            os_munmap(wf, get_mapping_start(m), m.mapped_length),
                            m.file_mapping_handle)
                   ELSE wf
              ELSE IF m.data # nullptr
                   THEN os_munmap(wf, get_mapping_start(m), m.mapped_length)
                   ELSE wf
        w2 == IF m.is_handle_internal THEN os_close(w1, m.file_handle) ELSE w1
    IN IF ~is_open(m) THEN w
       ELSE [w2 EXCEPT !.obj[i] = reset_fields(m)]

\* unmap that closes the file handle before it destroys the mapping.
unmap_closing_file_first(w, i) ==
    LET m == w.obj[i]
        w1 == IF m.is_handle_internal THEN os_close(w, m.file_handle) ELSE w
        w2 == IF win
              THEN IF is_mapped(m)
                   THEN os_CloseMapping(
                            os_munmap(w1, get_mapping_start(m), m.mapped_length),
                            m.file_mapping_handle)
                   ELSE w1
              ELSE IF m.data # nullptr
                   THEN os_munmap(w1, get_mapping_start(m), m.mapped_length)
                   ELSE w1
    IN IF ~is_open(m) THEN w
       ELSE [w2 EXCEPT !.obj[i] = reset_fields(m)]

\* basic_mmap::unmap on instance i.
unmap(w, i) ==
    LET m == w.obj[i]
        w1 == IF win
              THEN IF is_mapped(m)
                   THEN os_CloseMapping(
                            os_munmap(w, get_mapping_start(m), m.mapped_length),
                            m.file_mapping_handle)
                   ELSE w
              ELSE IF m.data # nullptr
                   THEN os_munmap(w, get_mapping_start(m), m.mapped_length)
                   ELSE w
        w2 == IF m.is_handle_internal THEN os_close(w1, m.file_handle) ELSE w1
    IN IF ~is_open(m) THEN w
       ELSE [w2 EXCEPT !.obj[i] = reset_fields(m)]

\* A length that is taken as given, the sentinel included.
map_length_literal(length, file_size) == length

\* The length map goes on with: the whole file for the sentinel.
map_length(length, file_size) ==
    IF length <= map_entire_file THEN file_size ELSE length

\* A bounds check that lets every request through.
map_out_of_bounds_unchecked(ub, off, length, file_size) == FALSE

\* The bounds check of map; it is skipped for the sentinel.  offset +
\* length is a sum of two size_type values: when it overflows the
\* comparison yields ub.
map_out_of_bounds(ub, off, length, file_size) ==
    /\ length > map_entire_file
    /\ IF Representable(off + length) THEN off + length > file_size ELSE ub

\* mapped_fields that marks the caller's handle as the instance's own.
mapped_fields_owning(handle, ctx) ==
    [data |-> ctx.data, file_handle |-> handle,
     file_mapping_handle |-> ctx.file_mapping_handle,
     length |-> ctx.length, mapped_length |-> ctx.mapped_length,
     is_handle_internal |-> TRUE]

\* The fields map(handle) writes after a successful memory_map.
mapped_fields(handle, ctx) ==
    [data |-> ctx.data, file_handle |-> handle,
     file_mapping_handle |-> ctx.file_mapping_handle,
     length |-> ctx.length, mapped_length |-> ctx.mapped_length,
     is_handle_internal |-> FALSE]

\* A return of map with an error that has let go of the old mapping first.
map_fail_unmapping(w, i, code) == [unmap(w, i) EXCEPT !.error = code]

\* A return of map with an error: the instance is not touched.
map_fail(w, i, code) == [w EXCEPT !.error = code]

\* map(handle) that overwrites the fields without unmapping first.
map_handle_leaking_old(w, i, handle, off, length, mode, sizeOk, cfmOk, viewOk) ==
    LET w0 == [w EXCEPT !.error = "none"]
        w1 == os_fstat(w0, handle)
        file_size == FileSize
        r == memory_map(w1, handle, off, map_length(length, file_size),
                        mode, cfmOk, viewOk)
    IN IF handle = INVALID_HANDLE_VALUE
       THEN map_fail(w0, i, "bad_file_descriptor")
       ELSE IF ~sizeOk
       THEN map_fail(w1, i, "os_error")
       ELSE IF map_out_of_bounds(w.ub, off, length, file_size)
       THEN map_fail(w1, i, "invalid_argument")
       ELSE IF r.error # "none"
       THEN map_fail(r.w, i, r.error)
       ELSE [r.w EXCEPT !.obj[i] = mapped_fields(handle, r.ctx)]

\* basic_mmap::map(handle_type, ...) on instance i.  sizeOk, cfmOk and
\* viewOk are the verdicts of the OS on the calls map may issue.
map_handle(w, i, handle, off, length, mode, sizeOk, cfmOk, viewOk) ==
    LET w0 == [w EXCEPT !.error = "none"]
        w1 == os_fstat(w0, handle)
        file_size == FileSize
        r == memory_map(w1, handle, off, map_length(length, file_size),
                        mode, cfmOk, viewOk)
    IN IF handle = INVALID_HANDLE_VALUE
       THEN map_fail(w0, i, "bad_file_descriptor")
       ELSE IF ~sizeOk
       THEN map_fail(w1, i, "os_error")
       ELSE IF map_out_of_bounds(w.ub, off, length, file_size)
       THEN map_fail(w1, i, "invalid_argument")
       ELSE IF r.error # "none"
       THEN map_fail(r.w, i, r.error)
       ELSE [unmap(r.w, i) EXCEPT !.obj[i] = mapped_fields(handle, r.ctx)]

\* detail::open_file: INVALID_HANDLE_VALUE and an error, or a new handle.
open_file(w, path, mode, openOk) ==
    IF empty_path(path)
    THEN [w |-> [w EXCEPT !.error = "invalid_argument"],
          handle |-> INVALID_HANDLE_VALUE]
    ELSE IF openOk /\ path = FilePath
    THEN [w |-> [os_open(w, "internal", mode) EXCEPT !.error = "none"],
          handle |-> Len(w.handles) + 1]
    ELSE [w |-> [os_open_fail(w) EXCEPT !.error = "os_error"],
          handle |-> INVALID_HANDLE_VALUE]

\* basic_mmap::map(String& path, ...) on instance i.
map_path(w, i, path, off, length, mode, openOk, sizeOk, cfmOk, viewOk) ==
    LET w0 == [w EXCEPT !.error = "none"]
        o == open_file(w0, path, mode, openOk)
        w1 == map_handle(o.w, i, o.handle, off, length, mode,
                         sizeOk, cfmOk, viewOk)
    IN IF empty_path(path)
       THEN map_fail(w0, i, "invalid_argument")
       ELSE IF o.w.error # "none"
       THEN o.w
       ELSE IF w1.error = "none"
       THEN [w1 EXCEPT !.obj[i].is_handle_internal = TRUE]
       ELSE w1

\* ---- the read-only and the read-write view over the engine ----

\* basic_mmap_source::map(path, ...): the engine's map, mode read.
source_map_path(w, i, path, off, length, openOk, sizeOk, cfmOk, viewOk) ==
    map_path(w, i, path, off, length, "read", openOk, sizeOk, cfmOk, viewOk)

\* basic_mmap_source::map(handle, ...): the engine's map, mode read.
source_map_handle(w, i, handle, off, length, sizeOk, cfmOk, viewOk) ==
    map_handle(w, i, handle, off, length, "read", sizeOk, cfmOk, viewOk)

\* basic_mmap_sink::map(path, ...): the code passes read_only here.
sink_map_path(w, i, path, off, length, openOk, sizeOk, cfmOk, viewOk) ==
    map_path(w, i, path, off, length, "read", openOk, sizeOk, cfmOk, viewOk)

\* basic_mmap_sink::map(handle, ...): the engine's map, mode write.
sink_map_handle(w, i, handle, off, length, sizeOk, cfmOk, viewOk) ==
    map_handle(w, i, handle, off, length, "write", sizeOk, cfmOk, viewOk)

\* ---- the factory functions ----
\* The object they return is built in the storage of instance i; b is
\* the value its uninitialized is_handle_internal_ happens to have.

\* make_mmap_source(const Path&, ...): open_file, then map(handle).
make_mmap_source_path(w, i, path, off, length, b, openOk, sizeOk, cfmOk, viewOk) ==
    LET o == open_file([w EXCEPT !.error = "none"], path, "read", openOk)
        w0 == [o.w EXCEPT !.obj[i] = Unestablished(b)]
    IN IF o.w.error # "none" THEN w0
       ELSE source_map_handle(w0, i, o.handle, off, length,
                              sizeOk, cfmOk, viewOk)

\* make_mmap_sink(const Path&, ...): open_file, then map(handle).
make_mmap_sink_path(w, i, path, off, length, b, openOk, sizeOk, cfmOk, viewOk) ==
    LET o == open_file([w EXCEPT !.error = "none"], path, "write", openOk)
        w0 == [o.w EXCEPT !.obj[i] = Unestablished(b)]
    IN IF o.w.error # "none" THEN w0
       ELSE sink_map_handle(w0, i, o.handle, off, length,
                            sizeOk, cfmOk, viewOk)

\* make_mmap_source(const MappingToken&, ...) with a path: map(path).
make_mmap_source_token(w, i, path, off, length, b, openOk, sizeOk, cfmOk, viewOk) ==
    source_map_path([w EXCEPT !.obj[i] = Unestablished(b)], i, path, off,
                    length, openOk, sizeOk, cfmOk, viewOk)

\* make_mmap_sink(const MappingToken&, ...) with a path: map(path).
make_mmap_sink_token(w, i, path, off, length, b, openOk, sizeOk, cfmOk, viewOk) ==
    sink_map_path([w EXCEPT !.obj[i] = Unestablished(b)], i, path, off,
                  length, openOk, sizeOk, cfmOk, viewOk)

\* ---- sync ----

\* sync without the check that the instance is open.
sync_unchecked(w, i, syncOk, flushOk) ==
    LET m == w.obj[i]
        w0 == [w EXCEPT !.error = "none"]
        w1 == os_msync(w0, get_mapping_start(m), m.mapped_length)
        w2 == IF win /\ syncOk THEN os_FlushFileBuffers(w1, m.file_handle)
              ELSE w1
        w3 == IF m.data # nullptr THEN w2 ELSE w0
    IN IF m.data # nullptr /\ ~(syncOk /\ (win => flushOk))
       THEN [w3 EXCEPT !.error = "os_error"]
       ELSE IF win
       THEN LET w4 == os_FlushFileBuffers(w3, m.file_handle)
            IN IF flushOk THEN w4 ELSE [w4 EXCEPT !.error = "os_error"]
       ELSE w3

\* sync that flushes the visible range only: from data, length bytes.
sync_visible_range(w, i, syncOk, flushOk) ==
    LET m == w.obj[i]
        w0 == [w EXCEPT !.error = "none"]
        w1 == os_msync(w0, m.data, m.length)
        w2 == IF win /\ syncOk THEN os_FlushFileBuffers(w1, m.file_handle)
              ELSE w1
        w3 == IF m.data # nullptr THEN w2 ELSE w0
    IN IF ~is_open(m)
       THEN [w0 EXCEPT !.error = "bad_file_descriptor"]
       ELSE IF m.data # nullptr /\ ~(syncOk /\ (win => flushOk))
       THEN [w3 EXCEPT !.error = "os_error"]
       ELSE IF win
       THEN LET w4 == os_FlushFileBuffers(w3, m.file_handle)
            IN IF flushOk THEN w4 ELSE [w4 EXCEPT !.error = "os_error"]
       ELSE w3

\* basic_mmap::sync on instance i.
sync(w, i, syncOk, flushOk) ==
    LET m == w.obj[i]
        w0 == [w EXCEPT !.error = "none"]
        w1 == os_msync(w0, get_mapping_start(m), m.mapped_length)
        w2 == IF win /\ syncOk THEN os_FlushFileBuffers(w1, m.file_handle)
              ELSE w1
        w3 == IF m.data # nullptr THEN w2 ELSE w0
    IN IF ~is_open(m)
       THEN [w0 EXCEPT !.error = "bad_file_descriptor"]
       ELSE IF m.data # nullptr /\ ~(syncOk /\ (win => flushOk))
       THEN [w3 EXCEPT !.error = "os_error"]
       ELSE IF win
       THEN LET w4 == os_FlushFileBuffers(w3, m.file_handle)
            IN IF flushOk THEN w4 ELSE [w4 EXCEPT !.error = "os_error"]
       ELSE w3

\* A move constructor that copies and leaves the source as it was.
moved_from_ctor_stale(m) == m

\* What the move constructor leaves in the source; is_handle_internal_
\* is not reset.
moved_from_ctor(m) == reset_fields(m)

\* A move assignment that leaves the source as it was.
moved_from_assign_stale(m) == m

\* What move assignment leaves in the source.
moved_from_assign(m) == [reset_fields(m) EXCEPT !.is_handle_internal = FALSE]

\* basic_mmap(basic_mmap&& other): this = i, other = j.
move_construct(w, i, j) ==
    [w EXCEPT !.obj[i] = w.obj[j], !.obj[j] = moved_from_ctor(w.obj[j])]

\* A move assignment that takes other's state over a live mapping.
move_assign_overwriting(w, i, j) ==
    IF i = j THEN w
    ELSE [w EXCEPT !.obj[i] = w.obj[j],
                   !.obj[j] = moved_from_assign(w.obj[j])]

\* operator=(basic_mmap&& other): this = i, other = j.
move_assign(w, i, j) ==
    LET w1 == unmap(w, i)
    IN IF i = j THEN w
       ELSE [w1 EXCEPT !.obj[i] = w1.obj[j],
                       !.obj[j] = moved_from_assign(w1.obj[j])]

\* A swap that overwrites this with other and forgets the exchange.
swap_one_way(w, i, j) == [w EXCEPT !.obj[i] = w.obj[j]]

\* A swap that exchanges everything but the ownership flags.
swap_keeping_flags(w, i, j) ==
    IF i = j THEN w
    ELSE [w EXCEPT
            !.obj[i] = [w.obj[j] EXCEPT
                           !.is_handle_internal = w.obj[i].is_handle_internal],
            !.obj[j] = [w.obj[i] EXCEPT
                           !.is_handle_internal = w.obj[j].is_handle_internal]]

\* basic_mmap::swap: this = i, other = j.
swap(w, i, j) ==
    IF i = j THEN w
    ELSE [w EXCEPT !.obj[i] = w.obj[j], !.obj[j] = w.obj[i]]

\* operator==: same data pointer and same size.
operator_eq(a, b) == a.data = b.data /\ a.length = b.length

operator_ne(a, b) == ~operator_eq(a, b)

\* An operator< that compares the first a.size() bytes of the two views,
\* as std::char_traits::compare does.
operator_lt_traits(a, b) ==
    \E n \in 0..(a.length - 1) :
       /\ \A k \in 0..(n - 1) :
             ReadMem(maps, a.data + k) = ReadMem(maps, b.data + k)
       /\ ReadMem(maps, a.data + n) < ReadMem(maps, b.data + n)

\* operator<: by data pointer, by size when the pointers are the same.
operator_lt(a, b) ==
    IF a.data = b.data THEN a.length < b.length ELSE a.data < b.data

\* operator>: by data pointer, by size when the pointers are the same.
operator_gt(a, b) ==
    IF a.data = b.data THEN a.length > b.length ELSE a.data > b.data

operator_le(a, b) == ~operator_gt(a, b)

operator_ge(a, b) == ~operator_lt(a, b)

\* ---- the state machine ----

NoArgs == [handle |-> INVALID_HANDLE_VALUE, path |-> NullPath]

Op(name, i, j, args) ==
    [op |-> name, who |-> i, other |-> j,
     handle |-> args.handle, path |-> args.path]

\* Take world w as the next state, after operation o.
Commit(w, o) ==
    /\ obj' = w.obj
    /\ handles' = w.handles
    /\ maps' = w.maps
    /\ error' = w.error
    /\ calls' = w.calls
    /\ last' = o
    /\ req' = req
    /\ win' = win
    /\ file' = file
    /\ written' = written

InitWith(R) ==
    /\ win \in BOOLEAN
    /\ req \in R
    /\ \E b \in BOOLEAN :
          obj = [i \in Instances |->
                    IF i = "a" THEN Unestablished(b) ELSE Unestablished(FALSE)]
    /\ alive = [i \in Instances |-> i = "a"]
    /\ moved_from = {}
    /\ handles = <<>>
    /\ maps = <<>>
    /\ error = "none"
    /\ calls = <<>>
    /\ last = Op("construct", "a", "a", NoArgs)
    /\ file = [p \in 0..(FileSize - 1) |-> FileByte(p)]
    /\ written = [k \in 0..(FileSize - 1) |-> 0]

\* Two instances; every map call draws its request from FewRequests.
Init == InitWith({[off |-> 0, len |-> map_entire_file]})

\* basic_mmap() = default, in the storage of a destroyed instance.
Construct(i) ==
    /\ ~alive[i]
    /\ alive' = [alive EXCEPT ![i] = TRUE]
    /\ moved_from' = moved_from \ {i}
    /\ \E b \in BOOLEAN :
          Commit([World EXCEPT !.obj[i] = Unestablished(b), !.error = "none"],
                 Op("construct", i, i, NoArgs))

MoveConstruct(i, j) ==
    /\ ~alive[i] /\ alive[j] /\ i # j
    /\ alive' = [alive EXCEPT ![i] = TRUE]
    /\ moved_from' = (moved_from \ {i}) \cup {j}
    /\ Commit([move_construct(World, i, j) EXCEPT !.error = "none"],
              Op("move_construct", i, j, NoArgs))

MoveAssign(i, j) ==
    /\ alive[i] /\ alive[j]
    /\ alive' = alive
    /\ moved_from' = IF i = j THEN moved_from ELSE (moved_from \ {i}) \cup {j}
    /\ Commit([move_assign(World, i, j) EXCEPT !.error = "none"],
              Op("move_assign", i, j, NoArgs))

Swap(i, j) ==
    /\ alive[i] /\ alive[j]
    /\ alive' = alive
    /\ moved_from' = {k \in Instances :
                         \/ k \notin {i, j} /\ k \in moved_from
                         \/ k = i /\ j \in moved_from
                         \/ k = j /\ i \in moved_from}
    /\ Commit([swap(World, i, j) EXCEPT !.error = "none"],
              Op("swap", i, j, NoArgs))

\* The caller opens the test file itself (::open in the test).
CallerOpen(mode) ==
    /\ Len(handles) < MaxOpens
    /\ alive' = alive
    /\ moved_from' = moved_from
    /\ Commit([os_open(World, "caller", mode) EXCEPT !.error = "none",
                                                     !.calls = <<>>],
              Op("open", "a", "a", NoArgs))

\* The handles a caller can pass: the invalid one and those it has opened.
CallerHandles ==
    {INVALID_HANDLE_VALUE} \cup {h \in 1..Len(handles) : handles[h].by = "caller"}

\* No more than MaxMaps mappings and MaxOpens handles are ever created.
\* CreateFileMapping exists on Windows only.
Capacity(f) ==
    /\ f = "cfm" => win
    /\ (f = "none" \/ (win /\ f = "view")) => Len(maps) < MaxMaps

\* mmap_source::map(handle, r.off, r.len, error) on instance i.  A call
\* with the invalid handle issues no OS call, so no OS verdict is drawn
\* for it.
MapHandle(i, handle, r) ==
    /\ alive[i]
    /\ handle \in CallerHandles
    /\ alive' = alive
    /\ \E f \in FailPoints \ {"open"}, w0 \in Run(r.off, r.len) :
          LET w == source_map_handle(w0, i, handle, r.off, r.len,
                                     f # "size", f # "cfm", f # "view")
          IN /\ Capacity(f)
             /\ handle = INVALID_HANDLE_VALUE => f = "size"
             /\ moved_from' = IF w.error = "none" THEN moved_from \ {i}
                               ELSE moved_from
             /\ Commit(w, Op("map_handle", i, i, [NoArgs EXCEPT !.handle = handle]))

\* mmap_source::map(path, r.off, r.len, error) on instance i.  Only the
\* test file exists: opening another path fails.
MapPath(i, path, r) ==
    /\ alive[i]
    /\ alive' = alive
    /\ \E f \in FailPoints, w0 \in Run(r.off, r.len) :
          LET w == source_map_path(w0, i, path, r.off, r.len,
                                   f # "open", f # "size", f # "cfm", f # "view")
          IN /\ Capacity(f)
             /\ path # FilePath => f = "open"
             /\ f # "open" => Len(handles) < MaxOpens
             /\ moved_from' = IF w.error = "none" THEN moved_from \ {i}
                               ELSE moved_from
             /\ Commit(w, Op("map_path", i, i, [NoArgs EXCEPT !.path = path]))

\* mmap_sink::map(handle, r.off, r.len, error) on instance i.
SinkMapHandle(i, handle, r) ==
    /\ alive[i]
    /\ handle \in CallerHandles
    /\ alive' = alive
    /\ \E f \in FailPoints \ {"open"}, w0 \in Run(r.off, r.len) :
          LET w == sink_map_handle(w0, i, handle, r.off, r.len,
                                   f # "size", f # "cfm", f # "view")
          IN /\ Capacity(f)
             /\ handle = INVALID_HANDLE_VALUE => f = "size"
             /\ moved_from' = IF w.error = "none" THEN moved_from \ {i}
                               ELSE moved_from
             /\ Commit(w, Op("sink_map_handle", i, i,
                             [NoArgs EXCEPT !.handle = handle]))

\* mmap_sink::map(path, r.off, r.len, error) on instance i.
SinkMapPath(i, path, r) ==
    /\ alive[i]
    /\ alive' = alive
    /\ \E f \in FailPoints, w0 \in Run(r.off, r.len) :
          LET w == sink_map_path(w0, i, path, r.off, r.len,
                                 f # "open", f # "size", f # "cfm", f # "view")
          IN /\ Capacity(f)
             /\ path # FilePath => f = "open"
             /\ f # "open" => Len(handles) < MaxOpens
             /\ moved_from' = IF w.error = "none" THEN moved_from \ {i}
                               ELSE moved_from
             /\ Commit(w, Op("sink_map_path", i, i,
                             [NoArgs EXCEPT !.path = path]))

\* sink[k] = Answer on the open sink i, k within its length.  A store the
\* OS refuses is an access violation; the model records it in error.
Write(i, k) ==
    /\ alive[i] /\ is_open(obj[i])
    /\ k \in DOMAIN written /\ k < obj[i].length
    /\ LET s == WriteMem(maps, file, obj[i].data + k, Answer)
       IN /\ file' = s.file
          /\ written' = IF s.ok THEN [written EXCEPT ![k] = Answer] ELSE written
          /\ error' = IF s.ok THEN "none" ELSE "access_violation"
    /\ calls' = <<>>
    /\ last' = Op("write", i, i, NoArgs)
    /\ UNCHANGED <<obj, alive, handles, maps, moved_from, req, win>>

Unmap(i) ==
    /\ alive[i]
    /\ alive' = alive
    /\ moved_from' = moved_from
    /\ Commit([unmap(World, i) EXCEPT !.error = "none"], Op("unmap", i, i, NoArgs))

Sync(i) ==
    /\ alive[i]
    /\ alive' = alive
    /\ moved_from' = moved_from
    /\ \E syncOk, flushOk \in BOOLEAN :
          Commit(sync(World, i, syncOk, flushOk), Op("sync", i, i, NoArgs))

\* ~basic_mmap(): unmap, then the storage is free.
Destroy(i) ==
    /\ alive[i]
    /\ alive' = [alive EXCEPT ![i] = FALSE]
    /\ moved_from' = moved_from
    /\ Commit([unmap(World, i) EXCEPT !.obj[i] = Unestablished(FALSE),
                                      !.error = "none"],
              Op("destroy", i, i, NoArgs))

Next ==
    \/ \E i \in Instances : Construct(i)
    \/ \E i, j \in Instances : MoveConstruct(i, j)
    \/ \E i, j \in Instances : MoveAssign(i, j)
    \/ \E i, j \in Instances : Swap(i, j)
    \/ CallerOpen("read")
    \/ \E i \in Instances, h \in INVALID_HANDLE_VALUE..MaxOpens, r \in FewRequests :
          MapHandle(i, h, r)
    \/ \E i \in Instances, path \in Paths, r \in FewRequests : MapPath(i, path, r)
    \/ \E i \in Instances : Unmap(i)
    \/ \E i \in Instances : Sync(i)
    \/ \E i \in Instances : Destroy(i)

Spec == Init /\ [][Next]_vars

\* One instance, mapped with one offset and length, any of Requests, in
\* every call.
NextArgs ==
    \/ CallerOpen("read")
    \/ \E h \in INVALID_HANDLE_VALUE..MaxOpens : MapHandle("a", h, req)
    \/ \E path \in Paths : MapPath("a", path, req)
    \/ Unmap("a")
    \/ Sync("a")

SpecArgs == InitWith(Requests) /\ [][NextArgs]_vars

\* A sink "a" and a source "b" over the same file, both mapped with one
\* offset and length, any of SinkRequests; the sink's view is written.
NextSink ==
    \/ \E mode \in access_mode : CallerOpen(mode)
    \/ \E h \in INVALID_HANDLE_VALUE..MaxOpens : SinkMapHandle("a", h, req)
    \/ \E path \in Paths : SinkMapPath("a", path, req)
    \/ \E k \in 0..(FileSize - 1) : Write("a", k)
    \/ Sync("a")
    \/ Unmap("a")
    \/ Construct("b")
    \/ \E h \in INVALID_HANDLE_VALUE..MaxOpens : MapHandle("b", h, req)
    \/ \E path \in Paths : MapPath("b", path, req)
    \/ Unmap("b")

SpecSink == InitWith(SinkRequests) /\ [][NextSink]_vars

\* The factory calls with a path; the object returned is instance i.

\* mmap_source m = make_mmap_source(path, req.off, req.len, error).
MakeMmapSourcePath(i, path) ==
    /\ ~alive[i]
    /\ alive' = [alive EXCEPT ![i] = TRUE]
    /\ moved_from' = moved_from \ {i}
    /\ \E f \in FailPoints, b \in BOOLEAN,
          w0 \in Run(req.off, req.len) :
          LET w == make_mmap_source_path(w0, i, path, req.off, req.len, b,
                        f # "open", f # "size", f # "cfm", f # "view")
          IN /\ Capacity(f)
             /\ path # FilePath => f = "open"
             /\ f # "open" => Len(handles) < MaxOpens
             /\ Commit(w, Op("make_mmap_source_path", i, i,
                             [NoArgs EXCEPT !.path = path]))

\* mmap_sink m = make_mmap_sink(path, req.off, req.len, error).
MakeMmapSinkPath(i, path) ==
    /\ ~alive[i]
    /\ alive' = [alive EXCEPT ![i] = TRUE]
    /\ moved_from' = moved_from \ {i}
    /\ \E f \in FailPoints, b \in BOOLEAN,
          w0 \in Run(req.off, req.len) :
          LET w == make_mmap_sink_path(w0, i, path, req.off, req.len, b,
                        f # "open", f # "size", f # "cfm", f # "view")
          IN /\ Capacity(f)
             /\ path # FilePath => f = "open"
             /\ f # "open" => Len(handles) < MaxOpens
             /\ Commit(w, Op("make_mmap_sink_path", i, i,
                             [NoArgs EXCEPT !.path = path]))

\* make_mmap_source(token, ...) with a path as the token.
MakeMmapSourceToken(i, path) ==
    /\ ~alive[i]
    /\ alive' = [alive EXCEPT ![i] = TRUE]
    /\ moved_from' = moved_from \ {i}
    /\ \E f \in FailPoints, b \in BOOLEAN,
          w0 \in Run(req.off, req.len) :
          LET w == make_mmap_source_token(w0, i, path, req.off, req.len, b,
                        f # "open", f # "size", f # "cfm", f # "view")
          IN /\ Capacity(f)
             /\ path # FilePath => f = "open"
             /\ f # "open" => Len(handles) < MaxOpens
             /\ Commit(w, Op("make_mmap_source_token", i, i,
                             [NoArgs EXCEPT !.path = path]))

\* make_mmap_sink(token, ...) with a path as the token.
MakeMmapSinkToken(i, path) ==
    /\ ~alive[i]
    /\ alive' = [alive EXCEPT ![i] = TRUE]
    /\ moved_from' = moved_from \ {i}
    /\ \E f \in FailPoints, b \in BOOLEAN,
          w0 \in Run(req.off, req.len) :
          LET w == make_mmap_sink_token(w0, i, path, req.off, req.len, b,
                        f # "open", f # "size", f # "cfm", f # "view")
          IN /\ Capacity(f)
             /\ path # FilePath => f = "open"
             /\ f # "open" => Len(handles) < MaxOpens
             /\ Commit(w, Op("make_mmap_sink_token", i, i,
                             [NoArgs EXCEPT !.path = path]))

\* Objects come from the factory functions or from map(path) on a
\* default-constructed object, and are unmapped and destroyed.
NextFactory ==
    \/ \E i \in Instances, path \in Paths : MakeMmapSourcePath(i, path)
    \/ \E i \in Instances, path \in Paths : MakeMmapSinkPath(i, path)
    \/ \E i \in Instances, path \in Paths : MakeMmapSourceToken(i, path)
    \/ \E i \in Instances, path \in Paths : MakeMmapSinkToken(i, path)
    \/ \E i \in Instances : Construct(i)
    \/ \E i \in Instances, path \in Paths : MapPath(i, path, req)
    \/ \E i \in Instances : Unmap(i)
    \/ \E i \in Instances : Destroy(i)

SpecFactory == InitWith(SinkRequests) /\ [][NextFactory]_vars

\* Instance "a" maps with one offset and length, any of MoveRequests;
\* "b" never maps: every view it holds has reached it by a move or a swap.
NextMoves ==
    \/ CallerOpen("read")
    \/ \E h \in INVALID_HANDLE_VALUE..MaxOpens : MapHandle("a", h, req)
    \/ \E path \in Paths : MapPath("a", path, req)
    \/ MoveConstruct("b", "a")
    \/ \E i, j \in Instances : MoveAssign(i, j)
    \/ \E i, j \in Instances : Swap(i, j)
    \/ Unmap("b")
    \/ Sync("b")
    \/ Destroy("b")

SpecMoves == InitWith(MoveRequests) /\ [][NextMoves]_vars

\* One instance, mapped with one offset and length, any of WideRequests,
\* in every call.
NextWide ==
    \/ CallerOpen("read")
    \/ \E h \in INVALID_HANDLE_VALUE..MaxOpens : MapHandle("a", h, req)
    \/ \E path \in Paths : MapPath("a", path, req)
    \/ Unmap("a")

SpecWide == InitWith(WideRequests) /\ [][NextWide]_vars

\* Two objects, each mapped by path with a range of its own, any of
\* CompareRequests, to be compared with each other.
NextCompare ==
    \/ \E i \in Instances : Construct(i)
    \/ \E i \in Instances, r \in CompareRequests : MapPath(i, FilePath, r)
    \/ \E i, j \in Instances : Swap(i, j)
    \/ \E i \in Instances : Unmap(i)
    \/ \E i \in Instances : Destroy(i)

SpecCompare == Init /\ [][NextCompare]_vars

\* ---- the claims ----

MapOps == {"map_handle", "map_path"}

MoveOps == {"move_construct", "move_assign"}

\* The last map call was given a path that cannot be opened or the
\* invalid handle.
BadToken(o) ==
    \/ o.op = "map_path" /\ o.path # FilePath
    \/ o.op = "map_handle" /\ o.handle = INVALID_HANDLE_VALUE

\* The last operation learned the size of the file: it queried it and
\* went on past the query.
GotFileSize ==
    /\ \E n \in 1..Len(calls) : calls[n].fn = "fstat"
    /\ ~(error = "os_error" /\ calls[Len(calls)].fn = "fstat")

\* The instances whose data pointer lies in mapping k.
Holders(k) ==
    {i \in Instances : /\ alive[i]
                       /\ obj[i].data # nullptr
                       /\ MapAt(maps, obj[i].data) = k}

\* C1: a map call that reports an error leaves every field of every
\* instance as it was before the call, and every mapping and every handle
\* that existed before the call as it was: a view held before is still live.
C1_StrongGuarantee ==
    [][(last'.op \in MapOps /\ error' # "none")
         => /\ obj' = obj
            /\ \A k \in 1..Len(maps) : maps'[k] = maps[k]
            /\ \A h \in 1..Len(handles) : handles'[h] = handles[h]]_vars

\* A mapping creation has failed on an instance that holds a live view.
C1_Witness ==
    /\ last.op \in MapOps
    /\ error = "os_error"
    /\ \E n \in 1..Len(calls) : calls[n].fn \in {"mmap", "MapViewOfFile"}
    /\ is_open(obj[last.who])
    /\ obj[last.who].data # nullptr
    /\ maps[MapAt(maps, obj[last.who].data)].view

\* C2: a handle the caller opened and handed to map is never closed by
\* the component, whatever unmap, destruction, move or remap follows.
C2_CallerHandleNeverClosed ==
    \A h \in 1..Len(handles) :
        handles[h].by = "caller" => handles[h].open /\ handles[h].closes = 0

\* Only the caller has opened handles; an instance that held a view of
\* one has destroyed that view and mapped a handle of the caller again.
C2_Witness ==
    /\ last.op = "map_handle"
    /\ error = "none"
    /\ \E n \in 1..Len(calls) : calls[n].fn = "munmap"
    /\ \A h \in 1..Len(handles) : handles[h].by = "caller"
    /\ obj[last.who].file_handle \in 1..Len(handles)

\* C3: a handle that map opened from a path is closed exactly once, when
\* the instance holding it is unmapped or destroyed: it is unclosed while
\* an instance holds it and closed once when none does; and no handle of
\* the caller is closed.
C3_OpenedHandleClosedOnce ==
    \A h \in 1..Len(handles) :
        IF handles[h].by = "caller" THEN handles[h].closes = 0
        ELSE IF \E i \in Instances : alive[i] /\ obj[i].file_handle = h
        THEN handles[h].closes = 0
        ELSE handles[h].closes = 1

\* C4: after a map with an explicit length that lies within the file,
\* the view has that length and its byte k is byte offset + k of the file.
C4_ViewBytes ==
    \A i \in Instances :
        (/\ alive[i]
         /\ is_open(obj[i])
         /\ req.len > map_entire_file
         /\ req.off + req.len <= FileSize)
        => /\ obj[i].length = req.len
           /\ \A k \in 0..(req.len - 1) :
                  ViewByte(maps, obj[i], k) = FileByte(req.off + k)

\* A view that starts past the first page, at an offset that is no
\* multiple of the page size, and runs to the end of the file.
C4_Witness ==
    /\ last.op \in MapOps
    /\ error = "none"
    /\ is_open(obj[last.who])
    /\ req.off = PageSize + 1
    /\ req.len = FileSize - req.off

\* C5: after a map with the whole-file sentinel as length, the view's
\* length is the file size minus the offset.
C5_SentinelLength ==
    \A i \in Instances :
        (/\ alive[i]
         /\ is_open(obj[i])
         /\ req.len = map_entire_file
         /\ req.off <= FileSize)
        => obj[i].length = FileSize - req.off

\* C6: a map request with offset + length beyond the file size fails with
\* an argument error and leaves the instance unmapped and empty.
C6_OverrunRejected ==
    (/\ last.op \in MapOps
     /\ GotFileSize
     /\ req.off + req.len > FileSize)
    => /\ error = "invalid_argument"
       /\ ~is_open(obj[last.who])
       /\ empty(obj[last.who])

\* C7 as stated: after a map with an empty or null path, a path to no
\* file, or the invalid handle, an error is reported (invalid_argument for
\* the empty paths, bad_file_descriptor for the handle) and the instance
\* is empty and not open.
C7_BadTokenLeavesEmpty ==
    BadToken(last)
    => /\ error # "none"
       /\ (last.op = "map_path" /\ last.path \in {NullPath, EmptyPath})
              => error = "invalid_argument"
       /\ last.op = "map_handle" => error = "bad_file_descriptor"
       /\ empty(obj[last.who])
       /\ ~is_open(obj[last.who])

\* C7 amended: such a map reports the error (invalid_argument for the
\* empty paths, bad_file_descriptor for the handle) and leaves the
\* instance as it was, so an instance that was not open before the call
\* is empty and not open after it.
C7_BadTokenReported ==
    [][BadToken(last')
         => /\ error' # "none"
            /\ (last'.op = "map_path" /\ last'.path \in {NullPath, EmptyPath})
                   => error' = "invalid_argument"
            /\ last'.op = "map_handle" => error' = "bad_file_descriptor"
            /\ obj'[last'.who] = obj[last'.who]
            /\ ~is_open(obj[last'.who])
                   => empty(obj'[last'.who]) /\ ~is_open(obj'[last'.who])]_vars

\* A null path has been refused by an instance that holds a view.
C7_Witness ==
    /\ last.op = "map_path"
    /\ last.path = NullPath
    /\ error = "invalid_argument"
    /\ is_open(obj[last.who])

\* C8 as stated: move construction and move assignment leave the source
\* not open and give the destination the state the source had.
C8_MoveEmptiesSource ==
    [][last'.op \in MoveOps
         => /\ ~is_open(obj'[last'.other])
            /\ obj'[last'.who] = obj[last'.other]]_vars

\* C8 amended: move construction and move assignment between two distinct
\* instances leave the source not open and give the destination every
\* field the source had; move assignment of an instance to itself leaves
\* it as it was.
C8_MoveBetweenDistinct ==
    [][last'.op \in MoveOps
         => IF last'.who = last'.other
            THEN obj' = obj /\ maps' = maps /\ handles' = handles
            ELSE /\ ~is_open(obj'[last'.other])
                 /\ obj'[last'.who] = obj[last'.other]]_vars

\* A move assignment has handed a view with its own handle to another
\* instance.
C8_Witness ==
    /\ last.op = "move_assign"
    /\ last.who # last.other
    /\ is_open(obj[last.who])
    /\ obj[last.who].is_handle_internal
    /\ ~is_open(obj[last.other])

\* C9: unmap or destruction of a moved-from instance issues no OS call;
\* no mapping is destroyed more than once and no handle is closed more
\* than once.
C9_NoDoubleRelease ==
    /\ \A k \in 1..Len(maps) : maps[k].destroys <= 1 /\ maps[k].objcloses <= 1
    /\ \A h \in 1..Len(handles) : handles[h].closes <= 1
    /\ (last.op \in {"unmap", "destroy"} /\ last.who \in moved_from)
           => calls = <<>>

\* A moved-from instance whose ownership flag still reads true has been
\* unmapped while the destination of the move holds the view and handle.
C9_Witness ==
    /\ last.op = "unmap"
    /\ last.who \in moved_from
    /\ obj[last.who].is_handle_internal
    /\ \E j \in Instances \ {last.who} :
           /\ alive[j]
           /\ is_open(obj[j])
           /\ obj[j].is_handle_internal
           /\ handles[obj[j].file_handle].closes = 0

\* C10: every live view is referenced by the data pointer of exactly one
\* instance.
C10_ExclusiveOwnership ==
    \A k \in 1..Len(maps) : maps[k].view => Cardinality(Holders(k)) = 1

\* Two instances that each hold a live view have swapped them.
C10_Witness ==
    /\ last.op = "swap"
    /\ last.who # last.other
    /\ \A i \in Instances : alive[i] /\ is_open(obj[i])
    /\ Cardinality({k \in 1..Len(maps) : maps[k].view}) = 2

\* C11: unmap of an instance that is not open issues no OS call and
\* changes nothing; unmap of an open instance destroys its mapping, with
\* the arguments it was created with, closes its file handle if and only if
\* the instance owns it, touches no other mapping or handle, and leaves the
\* instance in the state of a default-constructed one; an unmap that
\* follows an unmap of the same instance changes nothing.
C11_UnmapIdempotent ==
    [][last'.op = "unmap"
         => LET i == last'.who
                m == obj[i]
                k == MapAt(maps, m.data)
            IN /\ ~is_open(obj'[i])
               /\ \E b \in BOOLEAN : obj'[i] = Unestablished(b)
               /\ \A j \in Instances \ {i} : obj'[j] = obj[j]
               /\ Len(maps') = Len(maps) /\ Len(handles') = Len(handles)
               /\ (last.op = "unmap" /\ last.who = i)
                      => obj' = obj /\ maps' = maps /\ handles' = handles
                                    /\ calls' = <<>>
               /\ IF ~is_open(m)
                  THEN obj' = obj /\ maps' = maps /\ handles' = handles
                                  /\ calls' = <<>>
                  ELSE /\ maps[k].view
                       /\ ~maps'[k].view /\ ~maps'[k].object
                       /\ maps'[k].destroys = 1 /\ maps'[k].exact
                       /\ \A n \in 1..Len(maps) : n # k => maps'[n] = maps[n]
                       /\ \A h \in 1..Len(handles) :
                              handles'[h] =
                                  IF h = m.file_handle /\ m.is_handle_internal
                                  THEN [handles[h] EXCEPT !.open = FALSE,
                                                          !.closes = 1]
                                  ELSE handles[h]]_vars

\* An instance that owned its handle has been unmapped: the view is
\* destroyed and the handle closed by this call.
C11_Witness ==
    /\ last.op = "unmap"
    /\ \E n \in 1..Len(calls) : calls[n].fn = "munmap"
    /\ \E n \in 1..Len(calls) : calls[n].fn = "close"
    /\ ~is_open(obj[last.who])

\* What the public observers of an instance return.
Observers(m) ==
    [is_open |-> is_open(m), is_mapped |-> is_mapped(m), empty |-> empty(m),
     data |-> m.data, length |-> m.length, mapped_length |-> m.mapped_length,
     offset |-> offset(m), file_handle |-> m.file_handle,
     mapping_handle |-> mapping_handle(m)]

\* C12: after unmap the instance is not open and every observer returns
\* what it returns on a default-constructed instance; a map call that
\* follows the unmap has the outcome (error, OS calls, mappings, handles,
\* observers) that the same call has on a newly constructed instance, so
\* it succeeds whenever it would succeed there.
C12_MapAfterUnmap ==
    /\ [](last.op = "unmap"
            => /\ ~is_open(obj[last.who])
               /\ Observers(obj[last.who]) = Observers(Unestablished(FALSE)))
    /\ [][(last.op = "unmap" /\ last'.op \in MapOps)
            => \E f \in FailPoints, b \in BOOLEAN :
                  LET i == last'.who
                      fresh == [World EXCEPT !.obj[i] = Unestablished(b)]
                      w == IF last'.op = "map_handle"
                           THEN source_map_handle(fresh, i, last'.handle,
                                           req.off, req.len,
                                           f # "size", f # "cfm", f # "view")
                           ELSE source_map_path(fresh, i, last'.path,
                                         req.off, req.len, f # "open",
                                         f # "size", f # "cfm", f # "view")
                  IN /\ Observers(obj'[i]) = Observers(w.obj[i])
                     /\ error' = w.error /\ calls' = w.calls
                     /\ maps' = w.maps /\ handles' = w.handles]_vars

\* The test's scenario: a mapping was unmapped and the instance mapped
\* again by handle, successfully; the map call destroyed nothing itself.
C12_Witness ==
    /\ last.op = "map_handle" /\ error = "none"
    /\ is_open(obj["a"])
    /\ Len(maps) = 2 /\ ~maps[1].view /\ maps[2].view
    /\ \A n \in 1..Len(calls) : calls[n].fn # "munmap"

\* C13: a successful map on an instance that holds a live mapping destroys
\* that mapping exactly once, closes the old file handle exactly once if
\* the instance owned it and leaves it alone otherwise, creates exactly one
\* new mapping, and ends with the instance holding the new mapping and the
\* new handle; every other mapping and handle is untouched.
C13_MapReplaces ==
    [][(last'.op \in MapOps /\ error' = "none" /\ is_open(obj[last'.who]))
         => LET i == last'.who
                m == obj[i]
                k == MapAt(maps, m.data)
                n == Len(maps')
                h == m.file_handle
            IN /\ maps[k].view /\ maps[k].destroys = 0
               /\ ~maps'[k].view /\ ~maps'[k].object
               /\ maps'[k].destroys = 1 /\ maps'[k].exact
               /\ win => maps'[k].objcloses = 1
               /\ n = Len(maps) + 1
               /\ maps'[n].view /\ maps'[n].destroys = 0
               /\ MapAt(maps', obj'[i].data) = n
               /\ maps'[n].fd = obj'[i].file_handle
               /\ handles'[obj'[i].file_handle].open
               /\ \A x \in 1..Len(maps) : x # k => maps'[x] = maps[x]
               /\ \A x \in 1..Len(handles) :
                      handles'[x] =
                          IF x = h /\ m.is_handle_internal
                          THEN [handles[x] EXCEPT !.open = FALSE,
                                                  !.closes = 1]
                          ELSE handles[x]
               /\ m.is_handle_internal => obj'[i].file_handle # h
               /\ \A j \in Instances \ {i} : obj'[j] = obj[j]]_vars

\* A map by path has replaced a mapping whose handle the instance owned:
\* the call destroyed the old view, closed the old handle and made a view.
C13_Witness ==
    /\ last.op = "map_path" /\ error = "none"
    /\ \E x \in 1..Len(calls) : calls[x].fn = "munmap"
    /\ \E x \in 1..Len(calls) : calls[x].fn = "close"
    /\ is_open(obj[last.who])
    /\ \E x \in 1..Len(handles) : handles[x].closes = 1

\* The OS calls that write a view or a file back to disk.
FlushCalls == {"msync", "FlushFileBuffers"}

\* C14: the OS is asked to flush only inside an explicit sync call: no
\* unmap, destruction, move, swap or map call, replacing or not, issues
\* msync, FlushViewOfFile or FlushFileBuffers.
C14_NoImplicitFlush ==
    (\E n \in 1..Len(calls) : calls[n].fn \in FlushCalls) => last.op = "sync"

\* A move assignment has torn down the live mapping of its destination.
C14_Witness ==
    /\ last.op = "move_assign"
    /\ \E n \in 1..Len(calls) : calls[n].fn = "munmap"
    /\ \E n \in 1..Len(calls) : calls[n].fn = "close"

\* C15: sync changes no field of any instance, no mapping and no handle;
\* on an instance that is not open it reports bad_file_descriptor and
\* issues no OS call; on an open instance it flushes the view from the
\* start of the OS mapping over the mapped length and reports either
\* success or the error of the OS.
C15_SyncNotOpen ==
    [][last'.op = "sync"
         => LET m == obj[last'.who]
            IN /\ obj' = obj /\ maps' = maps /\ handles' = handles
               /\ IF ~is_open(m)
                  THEN error' = "bad_file_descriptor" /\ calls' = <<>>
                  ELSE /\ error' \in {"none", "os_error"}
                       /\ Len(calls') >= 1
                       /\ calls'[1] = Call("msync", get_mapping_start(m),
                                           m.mapped_length)
                       /\ \A n \in 1..Len(calls') :
                              calls'[n].fn \in FlushCalls]_vars

\* sync was called on a moved-from instance: bad_file_descriptor, no call.
C15_Witness ==
    /\ last.op = "sync" /\ error = "bad_file_descriptor"
    /\ last.who \in moved_from
    /\ calls = <<>>
    /\ \E i \in Instances : alive[i] /\ is_open(obj[i])

\* C18: for every live instance, in every reachable state, the data
\* pointer is null if and only if is_open() is false.
C18_DataIffOpen ==
    \A i \in Instances : alive[i] => ((obj[i].data = nullptr) <=> ~is_open(obj[i]))

\* After a swap one instance is open with a data pointer and the other,
\* moved-from, is not open and has none.
C18_Witness ==
    /\ last.op = "swap"
    /\ \E i, j \in Instances :
          /\ alive[i] /\ alive[j]
          /\ is_open(obj[i]) /\ obj[i].data # nullptr
          /\ j \in moved_from /\ ~is_open(obj[j]) /\ obj[j].data = nullptr

\* C19: for every live instance, mapped_length - length is the distance of
\* the data pointer from the address at which the OS placed the mapping,
\* it is at least 0 and smaller than the page size, and it is 0, with a
\* null data pointer, when the instance is not open.
C19_AlignmentRemainder ==
    \A i \in Instances :
       alive[i]
          => LET m == obj[i]
                 k == MapAt(maps, m.data)
                 d == m.mapped_length - m.length
             IN /\ d >= 0 /\ d < PageSize
                /\ IF is_open(m)
                   THEN /\ k \in 1..Len(maps) /\ maps[k].view
                        /\ d = m.data - k * Stride
                        /\ m.mapped_length = maps[k].len
                   ELSE d = 0 /\ m.data = nullptr

\* A mapping whose offset is not page aligned: the data pointer lies
\* past the start of the OS mapping.
C19_Witness ==
    /\ is_open(obj["a"])
    /\ req.off % PageSize # 0 /\ req.off > PageSize
    /\ obj["a"].mapped_length - obj["a"].length = req.off % PageSize
    /\ obj["a"].data # MapAt(maps, obj["a"].data) * Stride

\* C20 as stated: the mapped length of every open instance is at least
\* its length and is a multiple of the page size.
C20_MappedLengthMultiple ==
    is_open(obj["a"])
       => /\ obj["a"].mapped_length >= obj["a"].length
          /\ obj["a"].mapped_length % PageSize = 0

\* C20, amended: the mapped length of every open instance is its length
\* plus the distance of the requested offset from the page boundary
\* before it, so at least length and less than one page more; the OS
\* mapping starts at a file offset that is a multiple of the page size
\* and has exactly the mapped length.
C20_MappedLengthBounds ==
    is_open(obj["a"])
       => LET m == obj["a"]
              k == MapAt(maps, m.data)
          IN /\ m.mapped_length >= m.length
             /\ m.mapped_length = m.length + (req.off % PageSize)
             /\ maps[k].foff % PageSize = 0
             /\ maps[k].foff = req.off - (req.off % PageSize)
             /\ maps[k].len = m.mapped_length

\* The whole file is mapped from offset 0: mapped length = length = file
\* size, which is not a multiple of the page size.
C20_Witness ==
    /\ is_open(obj["a"])
    /\ req.off = 0
    /\ obj["a"].mapped_length = FileSize
    /\ obj["a"].length = FileSize
    /\ FileSize % PageSize # 0

\* The access the OS granted to the mapping instance m views.
ViewProt(ms, m) == ms[MapAt(ms, m.data)].prot

\* C17: every mapping the sink "a" holds was created with write access,
\* whether it was established from a path or from a handle, every mapping
\* the source "b" holds was created with read access, and the access of
\* a mapping does not change while its view exists.
C17_SinkReadWrite ==
    /\ []((alive["a"] /\ is_open(obj["a"])) => ViewProt(maps, obj["a"]) = "write")
    /\ []((alive["b"] /\ is_open(obj["b"])) => ViewProt(maps, obj["b"]) = "read")
    /\ [][\A k \in 1..Len(maps) :
             (maps[k].view /\ maps'[k].view) => maps'[k].prot = maps[k].prot]_vars

\* C16: a store through the view of the sink "a" never faults, and once
\* the sink has been synced and unmapped, the source "b" mapped over the
\* same range reads, at every index the sink stored a byte at, that byte.
C16_RoundTrip ==
    /\ last.op = "write" => error = "none"
    /\ (alive["b"] /\ is_open(obj["b"]) /\ ~is_open(obj["a"]))
          => \A k \in 0..(obj["b"].length - 1) :
                written[k] # 0 => ViewByte(maps, obj["b"], k) = written[k]

\* The round trip without mmap_sink::map(path): what the source reads is
\* what was stored through a sink mapped from a handle.
RoundTripByHandle ==
    (alive["b"] /\ is_open(obj["b"]) /\ ~is_open(obj["a"]))
       => \A k \in 0..(obj["b"].length - 1) :
             written[k] # 0 => ViewByte(maps, obj["b"], k) = written[k]

\* A byte stored through the sink has come back through the source.
RoundTripByHandle_Reached ==
    /\ alive["b"] /\ is_open(obj["b"]) /\ ~is_open(obj["a"])
    /\ \A k \in 0..(obj["b"].length - 1) :
          written[k] = Answer /\ ViewByte(maps, obj["b"], k) = Answer

ViewCalls == {"mmap", "MapViewOfFile"}

\* C22: every view a map call asks the OS for starts at the file offset
\* floor(offset / page size) * page size; when the call succeeds, the
\* length it asked for is (offset - aligned offset) + length, the OS
\* mapping has that offset and length, and the data pointer is the start
\* of the OS mapping plus (offset - aligned offset), which is the start
\* itself when the offset is a multiple of the page size.
C22_AlignmentResolver ==
    last.op \in MapOps
       => LET aligned_offset == (req.off \div PageSize) * PageSize
              m == obj["a"]
              k == MapAt(maps, m.data)
          IN /\ \A n \in 1..Len(calls) :
                   calls[n].fn \in ViewCalls => calls[n].a = aligned_offset
             /\ error = "none"
                   => /\ \E n \in 1..Len(calls) :
                            /\ calls[n].fn \in ViewCalls
                            /\ calls[n].b = (req.off - aligned_offset) + m.length
                      /\ maps[k].foff = aligned_offset
                      /\ maps[k].len = (req.off - aligned_offset) + m.length
                      /\ m.data = k * Stride + (req.off - aligned_offset)
                      /\ req.off % PageSize = 0 => m.data = k * Stride

\* A successful map at an unaligned offset past the first page: the OS
\* was asked for the page boundary before it.
C22_Witness ==
    /\ last.op \in MapOps /\ error = "none"
    /\ req.off = PageSize + 1
    /\ \E n \in 1..Len(calls) :
          calls[n].fn \in ViewCalls /\ calls[n].a = PageSize
    /\ obj["a"].data = MapAt(maps, obj["a"].data) * Stride + 1

\* C23: a swap leaves this with every field other had, the ownership flag
\* included, and other with every field this had; it issues no OS call,
\* creates and destroys no mapping, closes no handle and touches no third
\* instance; swapping the same two instances again restores both.
C23_SwapExchanges ==
    /\ [][last'.op = "swap"
            => LET i == last'.who
                   j == last'.other
               IN /\ obj'[i] = obj[j] /\ obj'[j] = obj[i]
                  /\ \A k \in Instances \ {i, j} : obj'[k] = obj[k]
                  /\ maps' = maps /\ handles' = handles
                  /\ calls' = <<>> /\ alive' = alive]_vars
    /\ [](\A i, j \in Instances :
             (alive[i] /\ alive[j]) => swap(swap(World, i, j), i, j) = World)

\* Two distinct instances were swapped: one is open and owns its handle,
\* the other is not open and owns nothing.
C23_Witness ==
    /\ last.op = "swap" /\ last.who # last.other
    /\ is_open(obj[last.who]) /\ obj[last.who].is_handle_internal
    /\ ~is_open(obj[last.other]) /\ ~obj[last.other].is_handle_internal
    /\ \E k \in 1..Len(maps) : maps[k].view

\* The visible bytes of instance m, in order.
Bytes(ms, m) == [k \in 1..m.length |-> ViewByte(ms, m, k - 1)]

\* s comes before t byte by byte, a proper prefix before the longer one.
LexLess(s, t) ==
    \E n \in 0..Len(s) :
       /\ n <= Len(t)
       /\ \A k \in 1..n : s[k] = t[k]
       /\ \/ n = Len(s) /\ n < Len(t)
          \/ n < Len(s) /\ n < Len(t) /\ s[n + 1] < t[n + 1]

\* C24: two live instances compare equal with operator== exactly when
\* their visible byte ranges have the same length and the same bytes, and
\* unequal with operator!= exactly when they do not.
C24_EqualityByContent ==
    \A i, j \in Instances :
       (alive[i] /\ alive[j])
          => /\ operator_eq(obj[i], obj[j])
                   <=> Bytes(maps, obj[i]) = Bytes(maps, obj[j])
             /\ operator_ne(obj[i], obj[j])
                   <=> Bytes(maps, obj[i]) # Bytes(maps, obj[j])

\* C25: the ordering operators order two live instances as their visible
\* byte ranges are ordered byte by byte, a proper prefix first.
C25_OrderingByContent ==
    \A i, j \in Instances :
       (alive[i] /\ alive[j])
          => LET s == Bytes(maps, obj[i])
                 t == Bytes(maps, obj[j])
             IN /\ operator_lt(obj[i], obj[j]) <=> LexLess(s, t)
                /\ operator_gt(obj[i], obj[j]) <=> LexLess(t, s)
                /\ operator_le(obj[i], obj[j]) <=> (LexLess(s, t) \/ s = t)
                /\ operator_ge(obj[i], obj[j]) <=> (LexLess(t, s) \/ s = t)

\* The names of the OS calls in cs, in order.
CallNames(cs) == [n \in 1..Len(cs) |-> cs[n].fn]

C27_FailedCreateClosesObject ==
    (last.op \in MapOps /\ error # "none")
       => \A k \in 1..Len(maps) :
             maps[k].object
                => \E i \in Instances :
                      alive[i] /\ obj[i].file_mapping_handle = k

\* The handles that are open in hs.
OpenHandles(hs) == {h \in 1..Len(hs) : hs[h].open}

\* C28: a map call by path that reports an error leaves the set of open
\* handles as it was before the call: a file the call opened has been
\* closed again before it returns.
C28_FailedPathMapClosesHandle ==
    [][(last'.op = "map_path" /\ error' # "none")
         => OpenHandles(handles') = OpenHandles(handles)]_vars

\* C29: a move assignment onto an open instance from another instance
\* destroys the destination's mapping exactly once, with the arguments it
\* was created with, closes the destination's handle exactly once if the
\* destination owned it and leaves it alone otherwise, issues no other
\* OS call, and ends with the destination holding every field the source
\* had and the source not open; no other mapping or handle changes.
C29_MoveAssignTearsDown ==
    [][(last'.op = "move_assign" /\ last'.who # last'.other
                                 /\ is_open(obj[last'.who]))
         => LET i == last'.who
                j == last'.other
                m == obj[i]
                k == MapAt(maps, m.data)
            IN /\ maps[k].view /\ maps[k].destroys = 0
               /\ ~maps'[k].view /\ ~maps'[k].object
               /\ maps'[k].destroys = 1 /\ maps'[k].exact
               /\ win => maps'[k].objcloses = 1
               /\ Len(maps') = Len(maps) /\ Len(handles') = Len(handles)
               /\ \A x \in 1..Len(maps) : x # k => maps'[x] = maps[x]
               /\ \A x \in 1..Len(handles) :
                      handles'[x] =
                          IF x = m.file_handle /\ m.is_handle_internal
                          THEN [handles[x] EXCEPT !.open = FALSE, !.closes = 1]
                          ELSE handles[x]
               /\ calls'[1].fn = "munmap"
               /\ \A n \in 1..Len(calls') :
                      calls'[n].fn \in {"munmap", "CloseMapping", "close"}
               /\ obj'[i] = obj[j]
               /\ obj'[j] = Unestablished(FALSE)]_vars

\* An open instance that owned its handle was move-assigned from another
\* open instance: its old view is gone, the view it took over is live.
C29_Witness ==
    /\ last.op = "move_assign" /\ last.who # last.other
    /\ CallNames(calls) \in {<<"munmap", "close">>,
                              <<"munmap", "CloseMapping", "close">>}
    /\ is_open(obj[last.who]) /\ ~is_open(obj[last.other])
    /\ Len(maps) = 2
    /\ \E k \in 1..2 : maps[k].view /\ ~maps[3 - k].view
                         /\ MapAt(maps, obj[last.who].data) = k

\* C30: once every instance has been destroyed no view is live, and
\* every OS mapping that ever had a view has been destroyed exactly once
\* (on Windows its mapping object closed exactly once); the only records
\* never destroyed are mapping objects of map calls that failed before a
\* view existed.
C30_ResourceBalance ==
    (\A i \in Instances : ~alive[i])
       => \A k \in 1..Len(maps) :
             /\ ~maps[k].view
             /\ maps[k].destroys <= 1 /\ maps[k].objcloses <= 1
             /\ \/ /\ maps[k].destroys = 1 /\ maps[k].exact /\ ~maps[k].object
                   /\ win => maps[k].objcloses = 1
                \/ win /\ maps[k].destroys = 0 /\ maps[k].objcloses = 0

\* Two mappings were created and every instance has been destroyed: both
\* mappings are gone, each destroyed once.
C30_Witness ==
    /\ last.op = "destroy"
    /\ \A i \in Instances : ~alive[i]
    /\ Len(maps) = MaxMaps
    /\ \A k \in 1..Len(maps) : maps[k].destroys = 1 /\ ~maps[k].view

\* C31: the region unmap hands to the OS is the region the creation call
\* returned, also after moves and swaps: every destroy call names the start
\* address of a mapping and, where it takes a length, the length that was
\* mapped; and for every view an instance holds, data - (mapped_length -
\* length) is the address the OS returned and mapped_length the length it
\* mapped.
C31_TeardownRegion ==
    /\ \A k \in 1..Len(maps) : maps[k].exact
    /\ \A n \in 1..Len(calls) :
          calls[n].fn = "munmap"
             => /\ calls[n].a % Stride = 0
                /\ calls[n].a \div Stride \in 1..Len(maps)
    /\ \A i \in Instances :
          (alive[i] /\ obj[i].data # nullptr)
             => LET k == MapAt(maps, obj[i].data)
                    m == obj[i]
                IN /\ k # 0
                   /\ maps[k].view
                   /\ m.data - (m.mapped_length - m.length) = k * Stride
                   /\ m.mapped_length = maps[k].len

\* Instance "b", which never maps, has unmapped a view that began inside a
\* page: the view was created by "a" and reached "b" by a move or a swap.
C31_Witness ==
    /\ last.op = "unmap"
    /\ last.who = "b"
    /\ req.off % PageSize # 0
    /\ \E n \in 1..Len(calls) : calls[n].fn = "munmap"
    /\ \E k \in 1..Len(maps) : maps[k].destroys = 1 /\ maps[k].exact

\* C32: an object a factory function has made from a path owns its file
\* handle, as one mapped with map(path) does: the handle that was opened
\* for it is closed, once, when the object is unmapped or destroyed.
C32_FactoryOwnsHandle ==
    [][(/\ last'.op \in {"unmap", "destroy"}
        /\ is_open(obj[last'.who])
        /\ handles[obj[last'.who].file_handle].by = "internal")
         => LET h == obj[last'.who].file_handle
            IN ~handles'[h].open /\ handles'[h].closes = 1]_vars

\* C33: sync on an established mapping flushes the whole region the OS
\* mapped, from the page-aligned mapping start for mapped_length bytes, so
\* that every byte of the view lies in the flushed range; and it reports
\* an OS error exactly when a flush primitive fails.
C33_SyncWholeRegion ==
    /\ [][(last'.op = "sync" /\ obj[last'.who].data # nullptr)
           => LET m == obj[last'.who]
                  k == MapAt(maps, m.data)
              IN /\ k # 0
                 /\ maps[k].view
                 /\ Len(calls') >= 1
                 /\ calls'[1] = Call("msync", k * Stride, maps[k].len)
                 /\ \A p \in 0..(m.length - 1) :
                        /\ calls'[1].a <= m.data + p
                        /\ m.data + p < calls'[1].a + calls'[1].b
                 /\ error' \in {"none", "os_error"}]_vars
    /\ [](\A i \in Instances :
            (alive[i] /\ obj[i].data # nullptr)
               => \A syncOk, flushOk \in BOOLEAN :
                     sync(World, i, syncOk, flushOk).error
                        = IF syncOk /\ (win => flushOk) THEN "none"
                          ELSE "os_error")

\* sync on a view that begins inside the second page has called the flush
\* primitive on an address below data, and the primitive has failed.
C33_Witness ==
    /\ last.op = "sync"
    /\ error = "os_error"
    /\ req.off = PageSize + 1
    /\ obj[last.who].data # nullptr
    /\ Len(calls) >= 1
    /\ calls[1].fn = "msync"
    /\ calls[1].a < obj[last.who].data
    /\ calls[1].b > obj[last.who].length

\* C34: on Windows, unmap of an established mapping issues its calls in
\* one order: the view is unmapped, then the mapping object is closed,
\* then the file handle is closed if the component opened it, and left
\* alone if the caller did; no other call is made.
C34_TeardownOrder ==
    [][(/\ win
        /\ last'.op \in {"unmap", "destroy"}
        /\ obj[last'.who].data # nullptr)
         => LET m == obj[last'.who]
                k == MapAt(maps, m.data)
                h == m.file_handle
                owned == h \in 1..Len(handles) /\ handles[h].by = "internal"
            IN /\ Len(calls') = IF owned THEN 3 ELSE 2
               /\ calls'[1].fn = "munmap" /\ calls'[1].a = k * Stride
               /\ calls'[2] = Call("CloseMapping", k, 0)
               /\ owned => calls'[3] = Call("close", h, 0)
               /\ ~maps'[k].view /\ ~maps'[k].object]_vars

\* On Windows an instance that was mapped by path has been unmapped: three
\* calls, the last of them the close of the file handle.
C34_Witness ==
    /\ win
    /\ last.op = "unmap"
    /\ Len(calls) = 3
    /\ calls[1].fn = "munmap"
    /\ calls[2].fn = "CloseMapping"
    /\ calls[3].fn = "close"
    /\ ~handles[calls[3].a].open

\* C35: a map with the whole-file sentinel (any length <= 0) at an offset
\* at or past the end of the file reports an error and establishes
\* nothing: the instance is never open.
C35_SentinelPastEnd ==
    (req.len <= map_entire_file /\ req.off >= FileSize)
       => /\ last.op \in MapOps => error # "none"
          /\ \A i \in Instances : alive[i] => ~is_open(obj[i])

\* C36: a map call that learned the file size and was given a
\* non-negative offset and a positive length whose mathematical sum lies
\* beyond the file reports invalid_argument and asks the OS for no
\* mapping, also when the sum is no value of size_type.
C36_NoWrapBypass ==
    (/\ last.op \in MapOps
     /\ GotFileSize
     /\ req.off >= 0 /\ req.len > map_entire_file
     /\ req.off + req.len > FileSize)
    => /\ error = "invalid_argument"
       /\ \A n \in 1..Len(calls) :
              calls[n].fn \notin {"mmap", "CreateFileMapping", "MapViewOfFile"}

\* What the operators look at, for ranges that no two objects of a run
\* hold together: the same address with different sizes.
Ranges == [data : {Stride, Stride + 1}, length : 1..2]

\* C37: the comparison operators are a consistent total order on the
\* objects: of a < b, a == b, a > b exactly one holds; a <= b is
\* !(a > b), a >= b is !(a < b), a != b is !(a == b), and a < b is b > a;
\* also when the bytes of one view are a proper prefix of the other's or
\* the lengths differ.
C37_TotalOrder ==
    \A a, b \in {obj[i] : i \in {j \in Instances : alive[j]}} \cup Ranges :
       LET lt == operator_lt(a, b)
           eq == operator_eq(a, b)
           gt == operator_gt(a, b)
       IN /\ lt \/ eq \/ gt
          /\ ~(lt /\ eq) /\ ~(lt /\ gt) /\ ~(eq /\ gt)
          /\ operator_le(a, b) <=> ~gt
          /\ operator_ge(a, b) <=> ~lt
          /\ operator_ne(a, b) <=> ~eq
          /\ lt <=> operator_gt(b, a)
          /\ a = b => eq

\* Two open objects whose views start at the same byte of the file, the
\* one at the lower address shorter: its bytes are a proper prefix of the
\* other's.
C37_Witness ==
    \E i, j \in Instances :
       /\ alive[i] /\ alive[j]
       /\ is_open(obj[i]) /\ is_open(obj[j])
       /\ obj[i].data < obj[j].data
       /\ obj[i].length < obj[j].length
       /\ \A k \in 0..(obj[i].length - 1) :
             ViewByte(maps, obj[i], k) = ViewByte(maps, obj[j], k)
       /\ operator_lt(obj[i], obj[j])

====
